---- MODULE Spec2Model ----
(***************************************************************************)
(* NeuroSurf backend: the model scheduler (swarm_router.ModelManager) and  *)
(* the agentic loop (autonomous_agent.AutonomousAgent.process_task).       *)
(***************************************************************************)
EXTENDS Integers, Sequences, FiniteSets, TLC

VARIABLES
    max_vram_gb,         \* ModelManager.max_vram_gb (constructor argument)
    default_models,      \* the role table initialize() copies into models
    models,              \* ModelManager.models: role -> ModelConfig
    current_vram_usage,  \* ModelManager.current_vram_usage
    lock,                \* ModelManager._lock: its holder, or NoOwner
    req,                 \* per coroutine: its position in request_model
    ctl,                 \* per coroutine: its position in process_command / vision_analyze
    max_iterations,      \* AutonomousAgent.max_iterations (constructor argument)
    conversation_history,\* per agent: AutonomousAgent.conversation_history
    halt_flag,           \* per agent: AutonomousAgent._halt_flag
    call,                \* per process_task call: its locals and position
    tool_exec,           \* the execute_tool call in progress: arguments, position, outcome
    extraction,          \* the _extract_tool_calls / _clean_response call: text and results
    insertion,           \* the tool result as process_task puts it into the history
    event,               \* the agent_command handler of each event: command, position, emissions
    thread_agents        \* main.py's thread_agents: the thread ids that have an agent

schedVars == <<max_vram_gb, default_models, models, current_vram_usage, lock, req, ctl>>

agentVars == <<max_iterations, conversation_history, halt_flag, call>>

toolVars == <<tool_exec, extraction, insertion>>

cmdVars == <<event, thread_agents>>

vars == <<schedVars, agentVars, toolVars, cmdVars>>

(***************************************************************************)
(* ModelRole and the role tables                                           *)
(***************************************************************************)

\* The enum's members in definition order, which is also the insertion
\* order of DEFAULT_MODELS and so the iteration order of models.items().
RoleOrder == <<"executive", "navigator", "eye", "clerk">>

ModelRole == {RoleOrder[i] : i \in 1..Len(RoleOrder)}

ModelConfig(prio, vram) == [loaded |-> FALSE, priority |-> prio, vram_estimate_gb |-> vram]

DEFAULT_MODELS ==
    [r \in ModelRole |->
        CASE r = "executive" -> ModelConfig(10, 16)
          [] r = "navigator" -> ModelConfig(8, 16)
          [] r = "eye"       -> ModelConfig(5, 8)
          [] r = "clerk"     -> ModelConfig(7, 3)]

\* The role table of the specification's scenarios: A (cost 6, priority 1),
\* B (cost 4, priority 2), C (cost 5, priority 5) and a role of cost 15.
ScenarioModels ==
    [r \in ModelRole |->
        CASE r = "executive" -> ModelConfig(1, 6)
          [] r = "navigator" -> ModelConfig(2, 4)
          [] r = "eye"       -> ModelConfig(5, 5)
          [] r = "clerk"     -> ModelConfig(5, 15)]

\* A table that leaves priority at the dataclass default (0) for every role.
UnprioritisedModels ==
    [r \in ModelRole |->
        CASE r = "executive" -> ModelConfig(0, 4)
          [] r = "navigator" -> ModelConfig(0, 3)
          [] r = "eye"       -> ModelConfig(0, 2)
          [] r = "clerk"     -> ModelConfig(0, 6)]

\* The deployments explored: the budget handed to the constructor and the
\* role table in force.
Deployments ==
    { [budget |-> 24, table |-> DEFAULT_MODELS],
      [budget |-> 10, table |-> DEFAULT_MODELS],
      [budget |-> 10, table |-> ScenarioModels],
      [budget |-> 8,  table |-> UnprioritisedModels] }

\* The coroutines that call request_model.
Clients == {"k1", "k2"}

NoOwner == "none"

NoRole == "none"

NoModels == << >>

(***************************************************************************)
(* Helpers                                                                 *)
(***************************************************************************)

\* list.sort(key=priority) is stable: x goes after every element whose key
\* is not larger.
RECURSIVE InsertByPriority(_, _, _)
InsertByPriority(m, x, s) ==
    IF s = << >> THEN <<x>>
    ELSE IF m[Head(s)].priority <= m[x].priority
         THEN <<Head(s)>> \o InsertByPriority(m, x, Tail(s))
         ELSE <<x>> \o s

RECURSIVE SortByPriority(_, _)
SortByPriority(m, s) ==
    IF s = << >> THEN << >>
    ELSE InsertByPriority(m, s[Len(s)], SortByPriority(m, SubSeq(s, 1, Len(s) - 1)))

\* _free_vram's list: the loaded roles in dict order, then sorted ascending
\* by priority.
LoadedByPriority(m) ==
    SortByPriority(m, SelectSeq(RoleOrder, LAMBDA r : r \in DOMAIN m /\ m[r].loaded))

\* A coroutine of SwarmController: which method it runs (op), where it
\* is, and what its request_model call returned (ready).
IdleCtl == [pc |-> "idle", op |-> "none", ready |-> FALSE]

IdleReq == [pc |-> "idle", role |-> NoRole, needed_gb |-> 0, loaded |-> << >>,
            freed |-> 0, result |-> FALSE,
            pre_models |-> NoModels, pre_usage |-> 0]

(***************************************************************************)
(* ModelManager.  The coroutines share one event loop: an action runs from *)
(* one await to no later than the next, where another coroutine may run.   *)
(***************************************************************************)

SchedInit ==
    /\ \E d \in Deployments :
          /\ max_vram_gb = d.budget
          /\ default_models = d.table
    /\ models = NoModels
    /\ current_vram_usage = 0
    /\ lock = NoOwner
    /\ req = [k \in Clients |-> IdleReq]
    /\ ctl = [k \in Clients |-> IdleCtl]

\* initialize(): copy the default configs.  SwarmController.initialize runs
\* it once, at startup.
Initialize ==
    /\ models = NoModels
    /\ models' = default_models
    /\ UNCHANGED <<max_vram_gb, default_models, current_vram_usage, lock, req>>
    /\ UNCHANGED <<agentVars, toolVars, cmdVars>>

LockAvailable_Unguarded == TRUE

\* asyncio.Lock: acquired only when nobody holds it.
LockAvailable == lock = NoOwner

AlreadyLoaded_Never(config) == FALSE

\* if config.loaded: return True
AlreadyLoaded(config) == config.loaded

\* request_model(role) is called: the coroutine reaches `async with
\* self._lock` and waits there for the lock.
ReqCall(k, role) ==
    /\ req[k].pc = "idle"
    /\ req' = [req EXCEPT ![k] = [IdleReq EXCEPT !.pc = "waiting", !.role = role]]
    /\ UNCHANGED <<max_vram_gb, default_models, models, current_vram_usage, lock>>
    /\ UNCHANGED <<agentVars, toolVars, cmdVars>>

ReleasedBy(k) == IF lock = k THEN NoOwner ELSE lock

\* request_model lines 110-125, which run without an await once the lock is
\* granted: take the lock, look the role up, return early, or decide whether
\* VRAM has to be freed.  pre_models and pre_usage record the scheduler
\* state the body starts from.
ReqEnter(k) ==
    /\ req[k].pc = "waiting"
    /\ LockAvailable
    /\ LET role    == req[k].role
           entered == [req[k] EXCEPT !.pre_models = models,
                                     !.pre_usage = current_vram_usage]
       IN
       IF role \notin DOMAIN models
       THEN /\ req' = [req EXCEPT ![k] = [entered EXCEPT !.pc = "idle", !.result = FALSE]]
            /\ lock' = lock
       ELSE IF AlreadyLoaded(models[role])
       THEN /\ req' = [req EXCEPT ![k] = [entered EXCEPT !.pc = "idle", !.result = TRUE]]
            /\ lock' = lock
       ELSE LET needed_vram    == models[role].vram_estimate_gb
                available_vram == max_vram_gb - current_vram_usage
            IN  IF needed_vram > available_vram
                THEN /\ req' = [req EXCEPT ![k] =
                                  [entered EXCEPT !.pc = "free",
                                                  !.needed_gb = needed_vram - available_vram,
                                                  !.loaded = LoadedByPriority(models),
                                                  !.freed = 0]]
                     /\ lock' = k
                ELSE /\ req' = [req EXCEPT ![k] = [entered EXCEPT !.pc = "load"]]
                     /\ lock' = k
    /\ UNCHANGED <<max_vram_gb, default_models, models, current_vram_usage>>
    /\ UNCHANGED <<agentVars, toolVars, cmdVars>>

\* _free_vram: one turn of `for role, config in loaded`, with _unload_model.
ReqFree(k) ==
    /\ req[k].pc = "free"
    /\ IF req[k].loaded = << >> \/ req[k].freed >= req[k].needed_gb
       THEN /\ req' = [req EXCEPT ![k].pc = "load"]
            /\ UNCHANGED <<models, current_vram_usage>>
       ELSE LET role == Head(req[k].loaded) IN
            /\ IF models[role].loaded
               THEN /\ models' = [models EXCEPT ![role].loaded = FALSE]
                    /\ current_vram_usage' =
                           current_vram_usage - models[role].vram_estimate_gb
               ELSE UNCHANGED <<models, current_vram_usage>>
            /\ req' = [req EXCEPT ![k].loaded = Tail(req[k].loaded),
                                  ![k].freed = req[k].freed + models[role].vram_estimate_gb]
    /\ UNCHANGED <<max_vram_gb, default_models, lock>>
    /\ UNCHANGED <<agentVars, toolVars, cmdVars>>

MarkLoaded_Skipped(m, role) == m

\* config.loaded = True
MarkLoaded(m, role) == [m EXCEPT ![role].loaded = TRUE]

\* request_model lines 127-132: mark the model loaded, account for it,
\* return True and leave the lock.
ReqLoad(k) ==
    /\ req[k].pc = "load"
    /\ LET role == req[k].role IN
       /\ models' = MarkLoaded(models, role)
       /\ current_vram_usage' = current_vram_usage + models[role].vram_estimate_gb
    /\ req' = [req EXCEPT ![k].pc = "idle", ![k].result = TRUE]
    /\ lock' = ReleasedBy(k)
    /\ UNCHANGED <<max_vram_gb, default_models>>
    /\ UNCHANGED <<agentVars, toolVars, cmdVars>>

(***************************************************************************)
(* Scheduler: what a request does from entry to return                     *)
(***************************************************************************)

LoadedRoles(m) == {r \in DOMAIN m : m[r].loaded}

RECURSIVE LoadedCost(_, _)
LoadedCost(m, S) ==
    IF S = {} THEN 0
    ELSE LET r == CHOOSE x \in S : TRUE
         IN  m[r].vram_estimate_gb + LoadedCost(m, S \ {r})

\* The step on which client k's request_model returns.
Returns(k) == req[k].pc # "idle" /\ req'[k].pc = "idle"

\* _free_vram run to completion on (m, usage): the roles of s are unloaded
\* in order until freed >= needed.
RECURSIVE FreeVram(_, _, _, _, _)
FreeVram(m, usage, s, freed, needed) ==
    IF s = << >> \/ freed >= needed THEN [models |-> m, usage |-> usage]
    ELSE FreeVram([m EXCEPT ![Head(s)].loaded = FALSE],
                  usage - m[Head(s)].vram_estimate_gb,
                  Tail(s), freed + m[Head(s)].vram_estimate_gb, needed)

\* request_model run alone, without interruption, on (m, usage).
SerialRequest(m, usage, role) ==
    IF role \notin DOMAIN m THEN [result |-> FALSE, models |-> m, usage |-> usage]
    ELSE IF m[role].loaded THEN [result |-> TRUE, models |-> m, usage |-> usage]
    ELSE LET needed == m[role].vram_estimate_gb
             avail  == max_vram_gb - usage
             f      == IF needed > avail
                       THEN FreeVram(m, usage, LoadedByPriority(m), 0, needed - avail)
                       ELSE [models |-> m, usage |-> usage]
         IN  [result |-> TRUE,
              models |-> [f.models EXCEPT ![role].loaded = TRUE],
              usage  |-> f.usage + needed]

InCriticalSection(k) == req[k].pc \in {"free", "load"}

\* C1: between operations current_vram_usage is the summed cost of the
\* loaded roles and does not exceed max_vram_gb.
C1_SchedulerInvariant ==
    lock = NoOwner =>
        /\ current_vram_usage = LoadedCost(models, LoadedRoles(models))
        /\ current_vram_usage <= max_vram_gb

\* The accounting half of C1 alone: usage is the summed cost of the loaded
\* roles whenever no request is inside the lock.
UsageIsLoadedCost ==
    lock = NoOwner => current_vram_usage = LoadedCost(models, LoadedRoles(models))

\* C2: a request for a role whose cost exceeds max_vram_gb returns False
\* (ResourceExhausted) and leaves every loaded flag and the usage as they
\* were when it started.
C2_OverBudgetRejected ==
    [][\A k \in Clients :
          ( /\ Returns(k)
            /\ req'[k].role \in DOMAIN req'[k].pre_models
            /\ req'[k].pre_models[req'[k].role].vram_estimate_gb > max_vram_gb )
          => /\ req'[k].result = FALSE
             /\ models' = req'[k].pre_models
             /\ current_vram_usage' = req'[k].pre_usage]_vars

\* C8: requests never interleave: at most one request is between its first
\* read and its last mutation of scheduler state, only that request changes
\* the state, and each request returns what it would have returned, and
\* leaves the state it would have left, had it run alone from the state it
\* started in.
C8_RequestsSerialised ==
    /\ [](\A k1, k2 \in Clients :
             InCriticalSection(k1) /\ InCriticalSection(k2) => k1 = k2)
    /\ [][\A k \in Clients :
             /\ InCriticalSection(k) =>
                   \A o \in Clients \ {k} :
                       \/ req'[o] = req[o]
                       \/ req[o].pc = "idle" /\ req'[o].pc = "waiting"
             /\ Returns(k) =>
                   LET serial == SerialRequest(req'[k].pre_models, req'[k].pre_usage,
                                               req'[k].role)
                   IN  /\ req'[k].result = serial.result
                       /\ models' = serial.models
                       /\ current_vram_usage' = serial.usage]_vars

\* C8 witness: one request is evicting inside the lock while another has
\* called request_model and waits.
C8_Witness ==
    \E k1, k2 \in Clients :
        /\ req[k1].pc = "free" /\ req[k1].freed > 0
        /\ req[k2].pc = "waiting"

\* The prefix of s of length n, as a set, and its cost.
PrefixSet(s, n) == {s[i] : i \in 1..n}

PrefixCost(m, s, n) == LoadedCost(m, PrefixSet(s, n))

\* C9: a request that loads a role evicts exactly the shortest prefix of the
\* loaded roles, in ascending priority with ties in enumeration order, whose
\* total cost is at least the deficit; it evicts nothing when the deficit is
\* not positive.
C9_EvictsShortestPrefix ==
    [][\A k \in Clients :
          ( /\ Returns(k)
            /\ req'[k].role \in DOMAIN req'[k].pre_models
            /\ ~req'[k].pre_models[req'[k].role].loaded )
          => LET pre     == req'[k].pre_models
                 order   == LoadedByPriority(pre)
                 deficit == pre[req'[k].role].vram_estimate_gb
                               - (max_vram_gb - req'[k].pre_usage)
                 evicted == LoadedRoles(pre) \ LoadedRoles(models')
             IN  IF deficit <= 0 THEN evicted = {}
                 ELSE \E n \in 0..Len(order) :
                         /\ PrefixCost(pre, order, n) >= deficit
                         /\ \A j \in 0..(n - 1) : PrefixCost(pre, order, j) < deficit
                         /\ evicted = PrefixSet(order, n)]_vars

\* C9's scenario: with budget 10 and A (6, priority 1), B (4, priority 2)
\* loaded, a request for C (cost 5) ends with B and C loaded and usage 9.
C9_ScenarioReached ==
    \E k \in Clients :
        /\ default_models = ScenarioModels /\ max_vram_gb = 10
        /\ req[k].pc = "idle" /\ req[k].role = "eye" /\ req[k].result
        /\ LoadedRoles(req[k].pre_models) = {"executive", "navigator"}
        /\ LoadedRoles(models) = {"navigator", "eye"}
        /\ current_vram_usage = 9

\* C10: a request for a role that is loaded when the request starts returns
\* True and leaves the usage and every loaded flag as they were.
C10_LoadedRoleIsNoOp ==
    [][\A k \in Clients :
          ( /\ Returns(k)
            /\ req'[k].role \in DOMAIN req'[k].pre_models
            /\ req'[k].pre_models[req'[k].role].loaded )
          => /\ req'[k].result = TRUE
             /\ models' = req'[k].pre_models
             /\ current_vram_usage' = req'[k].pre_usage]_vars

\* C10 witness: a request for an already loaded role has returned True.
C10_Witness ==
    \E k \in Clients :
        /\ req[k].pc = "idle" /\ req[k].role \in DOMAIN req[k].pre_models
        /\ req[k].pre_models[req[k].role].loaded
        /\ req[k].result = TRUE
        /\ current_vram_usage > 0

\* C11: a request for a configured role whose cost is at most max_vram_gb
\* returns True (Ready), never False, from whatever state it starts in, and
\* the role is loaded when it returns.
C11_FittingRoleIsLoaded ==
    [][\A k \in Clients :
          ( /\ Returns(k)
            /\ req'[k].role \in DOMAIN req'[k].pre_models
            /\ req'[k].pre_models[req'[k].role].vram_estimate_gb <= max_vram_gb )
          => /\ req'[k].result = TRUE
             /\ models'[req'[k].role].loaded]_vars

\* C11 witness: a request for a role that fits the budget, started while
\* the usage was above the budget and the role was not loaded, has
\* returned True.
C11_Witness ==
    \E k \in Clients :
        /\ req[k].pc = "idle" /\ req[k].role \in DOMAIN req[k].pre_models
        /\ ~req[k].pre_models[req[k].role].loaded
        /\ req[k].pre_models[req[k].role].vram_estimate_gb <= max_vram_gb
        /\ req[k].pre_usage > max_vram_gb
        /\ req[k].result = TRUE /\ models[req[k].role].loaded

\* request_model called by coroutines that do nothing else.
SchedNext ==
    \/ Initialize /\ UNCHANGED ctl
    \/ \E k \in Clients, role \in ModelRole : ReqCall(k, role) /\ UNCHANGED ctl
    \/ \E k \in Clients : ReqEnter(k) /\ UNCHANGED ctl
    \/ \E k \in Clients : ReqFree(k) /\ UNCHANGED ctl
    \/ \E k \in Clients : ReqLoad(k) /\ UNCHANGED ctl

(***************************************************************************)
(* SwarmController.process_command and vision_analyze: request the role,   *)
(* then generate.  ollama.generate is a blocking call: while a coroutine   *)
(* is inside it the event loop runs no other coroutine.                    *)
(***************************************************************************)

Blocked_Never == FALSE

Blocked == \E k \in Clients : ctl[k].pc = "generating"

\* Lines 236-237 and 332-336: when request_model returns, its value is
\* dropped and the coroutine goes straight into the generation call.
AfterRequest(k) ==
    ctl' = [ctl EXCEPT ![k] =
              IF req'[k].pc = "idle"
              THEN [@ EXCEPT !.pc = "generating", !.ready = req'[k].result]
              ELSE @]

\* process_command up to its request_model(ModelRole.EXECUTIVE)
ProcessCommand(k) ==
    /\ ~Blocked
    /\ ctl[k].pc = "idle"
    /\ ReqCall(k, "executive")
    /\ ctl' = [ctl EXCEPT ![k] = [IdleCtl EXCEPT !.pc = "requesting",
                                                 !.op = "process_command"]]

\* vision_analyze up to its request_model(ModelRole.EYE)
VisionAnalyze(k) ==
    /\ ~Blocked
    /\ ctl[k].pc = "idle"
    /\ ReqCall(k, "eye")
    /\ ctl' = [ctl EXCEPT ![k] = [IdleCtl EXCEPT !.pc = "requesting",
                                                 !.op = "vision_analyze"]]

\* A step of the request_model call of coroutine k.
RequestStep(k) ==
    /\ ~Blocked
    /\ ctl[k].pc = "requesting"
    /\ (ReqEnter(k) \/ ReqFree(k) \/ ReqLoad(k))
    /\ AfterRequest(k)

\* ollama.generate has returned or raised (lines 287-298, 336-348):
\* vision_analyze returns; process_command returns when the plan has no
\* step (or halt was called) and executes the first step otherwise.
Generated(k, steps) ==
    /\ ctl[k].pc = "generating"
    /\ ctl' = [ctl EXCEPT ![k] =
                  IF ctl[k].op = "process_command" /\ steps
                  THEN [@ EXCEPT !.pc = "step"]
                  ELSE IdleCtl]
    /\ UNCHANGED <<max_vram_gb, default_models, models, current_vram_usage, lock, req>>
    /\ UNCHANGED <<agentVars, toolVars, cmdVars>>

\* _execute_step (line 254) has returned, for the last step of the plan.
StepDone(k) ==
    /\ ~Blocked
    /\ ctl[k].pc = "step"
    /\ ctl' = [ctl EXCEPT ![k] = IdleCtl]
    /\ UNCHANGED <<max_vram_gb, default_models, models, current_vram_usage, lock, req>>
    /\ UNCHANGED <<agentVars, toolVars, cmdVars>>

RouteNext ==
    \/ ~Blocked /\ Initialize /\ UNCHANGED ctl
    \/ \E k \in Clients : ProcessCommand(k)
    \/ \E k \in Clients : VisionAnalyze(k)
    \/ \E k \in Clients : RequestStep(k)
    \/ \E k \in Clients, steps \in BOOLEAN : Generated(k, steps)
    \/ \E k \in Clients : StepDone(k)

\* C27: a generation call is issued only after the request_model call made
\* for it returned True; a request that returned False is not followed by
\* the generation call.
C27_GenerationOnlyWhenReady ==
    [][\A k \in Clients :
          (ctl[k].pc # "generating" /\ ctl'[k].pc = "generating") =>
              /\ Returns(k)
              /\ req'[k].result = TRUE]_vars

\* C28: the lock is held only by a request between its first read and its
\* last mutation of the scheduler state; it is free whenever a coroutine
\* is inside a generation call, and no coroutine holds it while it
\* generates or executes a step.
C28_LockHeldOnlyInRequest ==
    /\ lock # NoOwner => InCriticalSection(lock)
    /\ \A k \in Clients :
          /\ ctl[k].pc = "generating" => lock = NoOwner
          /\ ctl[k].pc \in {"generating", "step"} => (lock # k /\ req[k].pc = "idle")

\* One coroutine is inside its generation call, after a request that
\* evicted, while the other has called request_model and waits for the lock.
C28_Witness ==
    \E k1, k2 \in Clients :
        /\ ctl[k1].pc = "generating" /\ ctl[k1].ready
        /\ LoadedRoles(req[k1].pre_models) \ LoadedRoles(models) # {}
        /\ req[k2].pc = "waiting"
        /\ lock = NoOwner

\* C35: from the return of a request_model call with True until the
\* generation call made after it has completed, the requested role is
\* loaded, whatever requests other coroutines have made in between.
C35_ReadyRoleStaysLoaded ==
    \A k \in Clients :
        (ctl[k].pc = "generating" /\ ctl[k].ready) =>
            /\ req[k].role \in DOMAIN models
            /\ models[req[k].role].loaded

\* One coroutine is inside its generation call with its role loaded while
\* the other has called request_model for a role that is not loaded and
\* does not fit beside the loaded ones.
C35_Witness ==
    \E k1, k2 \in Clients :
        /\ ctl[k1].pc = "generating" /\ ctl[k1].ready
        /\ models[req[k1].role].loaded
        /\ req[k2].pc = "waiting"
        /\ req[k2].role \in DOMAIN models
        /\ ~models[req[k2].role].loaded
        /\ models[req[k2].role].vram_estimate_gb > max_vram_gb - current_vram_usage

(***************************************************************************)
(* AgentTools.execute_tool                                                 *)
(***************************************************************************)

\* The JSON values a tool call carries as its "tool" and its "parameters":
\* a string, null, or a list for "tool"; an object (of which only the keys
\* matter here) or something that is not an object for "parameters".
Str(s) == [type |-> "str", value |-> s, keys |-> {}]

JsonNull == [type |-> "null", value |-> "", keys |-> {}]

JsonList(s) == [type |-> "list", value |-> s, keys |-> {}]

Mapping(keys) == [type |-> "dict", value |-> "", keys |-> keys]

NotAMapping == JsonList("command")

\* Three of the eighteen entries of tool_methods, each with its handler's
\* signature: the parameters that have no default, and all its parameters.
tool_methods ==
    [n \in {"terminal_execute", "fs_list", "screenshot_capture"} |->
        CASE n = "terminal_execute" ->
                 [required |-> {"command"},
                  accepted |-> {"command", "working_dir", "timeout"}]
          [] n = "fs_list" ->
                 [required |-> {}, accepted |-> {"path"}]
          [] n = "screenshot_capture" ->
                 [required |-> {}, accepted |-> {}]]

\* get_tool_definitions: the "required" list each of these tools declares.
tool_definitions ==
    [n \in DOMAIN tool_methods |->
        CASE n = "terminal_execute"   -> {"command"}
          [] n = "fs_list"            -> {"path"}
          [] n = "screenshot_capture" -> {}]

ParameterKeys == {"command", "working_dir", "path", "colour"}

ToolNameValues ==
    {Str(n) : n \in DOMAIN tool_methods \cup {"no_such_tool", ""}}
    \cup {JsonNull, JsonList("fs_list")}

ParameterValues == {Mapping(K) : K \in SUBSET ParameterKeys} \cup {NotAMapping}

\* The error texts: str(e) of the exceptions, and the unknown-tool message.
NoError         == ""
UnknownTool     == "Unknown tool"
UnhashableName  == "unhashable type: 'list'"
NotMappingError == "argument after ** must be a mapping"
UnexpectedError == "got an unexpected keyword argument"
MissingError    == "missing 1 required positional argument"
HandlerError    == "Failed to list directory"

\* The dict execute_tool returns: {"success": True, "result": ...} or
\* {"success": False, "error": ...}; the absent key is written "".
ToolResult(success, error, payload) ==
    [success |-> success, error |-> error, result |-> payload]

NoResult == ToolResult(FALSE, NoError, "")

\* dict.get(key) hashes the key: a list (or a dict) raises TypeError.
Hashable(name) == name.type \notin {"list", "dict"}

\* method = tool_methods.get(tool_name) is not None
Registered(name) == name.type = "str" /\ name.value \in DOMAIN tool_methods

\* method(**parameters): what binding the arguments to the handler's
\* signature raises before the handler's body runs, if anything.
BindError(sig, parameters) ==
    IF parameters.type # "dict" THEN NotMappingError
    ELSE IF parameters.keys \ sig.accepted # {} THEN UnexpectedError
    ELSE IF sig.required \ parameters.keys # {} THEN MissingError
    ELSE NoError

\* handler: "none" while no handler body has run, "running", then how the
\* body ended ("return" or "raise").  raised: execute_tool itself raised.
IdleExec == [pc |-> "idle", tool_name |-> JsonNull, parameters |-> NotAMapping,
             handler |-> "none", raised |-> FALSE, result |-> NoResult]

\* Lines 361-387, up to the await of the handler: look the name up, return
\* the unknown-tool result, or call the handler with the parameters.
Dispatch(name, parameters) ==
    LET e == [IdleExec EXCEPT !.tool_name = name, !.parameters = parameters] IN
    IF ~Hashable(name)
    THEN [e EXCEPT !.pc = "done", !.raised = TRUE,
                   !.result = ToolResult(FALSE, UnhashableName, "")]
    ELSE IF ~Registered(name)
    THEN [e EXCEPT !.pc = "done", !.result = ToolResult(FALSE, UnknownTool, "")]
    ELSE LET err == BindError(tool_methods[name.value], parameters) IN
         IF err # NoError
         THEN [e EXCEPT !.pc = "done", !.result = ToolResult(FALSE, err, "")]
         ELSE [e EXCEPT !.pc = "handler", !.handler = "running"]

\* The handlers that bound their work with asyncio.wait_for.
BoundedHandlers == {"terminal_execute"}

\* What terminal_execute returns when its wait_for times out (lines
\* 441-447): a dict with return_code -1 and the notice in stderr.
TimedOutPayload == "Command timed out"

\* Lines 387-391: the handler's body has ended: by return, by raising an
\* Exception, which the except clause turns into a result, or, when its
\* own timeout struck, by returning its timed-out dict.
Handled(e, outcome) ==
    [e EXCEPT !.pc = "done", !.handler = outcome,
              !.result = CASE outcome = "return"  -> ToolResult(TRUE, NoError, "payload")
                           [] outcome = "timeout" -> ToolResult(TRUE, NoError, TimedOutPayload)
                           [] outcome = "raise"   -> ToolResult(FALSE, HandlerError, "")]

HandlerOutcomes == {"return", "raise"}

\* The text json.dumps(result, default=str) gives, by its length n: one
\* character per position.
Alphabet == <<"a", "b", "c">>

ResultStr(n) == [i \in 1..n |-> Alphabet[(i % Len(Alphabet)) + 1]]

\* len(result_str) > 500
TruncateAt == 500

TruncationMarker == <<".", ".", ".", "T", "R", "U", "N", "C", "A", "T", "E", "D">>

Truncate_Never(result_str) == result_str

\* Lines 152-153
Truncate(result_str) ==
    IF Len(result_str) > TruncateAt
    THEN SubSeq(result_str, 1, TruncateAt) \o TruncationMarker
    ELSE result_str

\* str(tool_name) in the f-string
Format(name) == IF name.type = "null" THEN "None" ELSE name.value

\* f"TOOL_RESULT({tool_name}): {result_str}"
ToolResultContent(name, result_str) ==
    <<"TOOL_RESULT(", Format(name), "): ">> \o result_str

\* Longest serialised result explored.
MaxResultLen == 504

ResultLens == {n \in 1..MaxResultLen : n <= 3 \/ n >= TruncateAt - 3}

IdleInsertion == [pc |-> "idle", result_str |-> << >>, content |-> << >>]

\* execute_tool from call to return.
execute_tool(name, parameters, outcome) ==
    LET e == Dispatch(name, parameters) IN
    IF e.pc = "done" THEN e ELSE Handled(e, outcome)

(***************************************************************************)
(* AutonomousAgent._extract_tool_calls and _clean_response.  A text is a   *)
(* sequence of the pieces below; the regular expressions and the brace     *)
(* scan are followed piece by piece.                                       *)
(***************************************************************************)

\* (a backquote is written ' in these two)
Fence       == "'''json"
FenceEnd    == "'''"
Marker      == "{\"tool\":"
Name        == "\"fs_list\""
ListName    == "[\"fs_list\"]"
Params      == ",\"parameters\":"
Open        == "{"
Close       == "}"
Member      == "\"path\":\".\""
BraceMember == "\"command\":\"echo }\""
Prose       == "Done"
Space       == " "
Json        == "json"

\* The pieces that begin with "{", that begin with ```, that begin with a
\* double quote, that end with one; and what each adds to open_braces.
Opens     == {Open, Marker}
Fences    == {Fence, FenceEnd}
QuoteOpen == {Name, Member, BraceMember}
QuoteEnd  == {Name, Member, BraceMember}

Braces(tok) ==
    IF tok \in Opens THEN 1
    ELSE IF tok \in {Close, BraceMember} THEN -1
    ELSE 0

Min(S) == CHOOSE x \in S : \A y \in S : x <= y

\* \s* from position i: the first position that holds no whitespace.
RECURSIVE SkipSpace(_, _)
SkipSpace(t, i) ==
    IF i <= Len(t) /\ t[i] = Space THEN SkipSpace(t, i + 1) ELSE i

\* A parsed object as process_task reads it: tool_call.get("tool"),
\* tool_call.get("parameters", {}), and the keys the object has.
Invocation(tool, parameters, fields) ==
    [tool |-> tool, parameters |-> parameters, fields |-> fields]

NoInvocation == Invocation(JsonNull, Mapping({}), {})

ParseFailed == [ok |-> FALSE, next |-> 0, value |-> JsonNull, call |-> NoInvocation]

Parsed(next, value, inv) == [ok |-> TRUE, next |-> next, value |-> value, call |-> inv]

\* json.loads on pieces without whitespace: a value starts at position i;
\* ParseMembers reads the (,"parameters": value)* "}" that ends an object.
RECURSIVE ParseValue(_, _), ParseMembers(_, _, _)
ParseValue(t, i) ==
    IF i > Len(t) THEN ParseFailed
    ELSE CASE t[i] = Name     -> Parsed(i + 1, Str("fs_list"), NoInvocation)
           [] t[i] = ListName -> Parsed(i + 1, JsonList("fs_list"), NoInvocation)
           [] t[i] = Open ->
                IF i + 1 <= Len(t) /\ t[i + 1] = Close
                THEN Parsed(i + 2, Mapping({}), NoInvocation)
                ELSE IF i + 1 <= Len(t) /\ t[i + 1] \in {Member, BraceMember}
                THEN ParseMembers(t, i + 2,
                        [keys |-> {IF t[i + 1] = Member THEN "path" ELSE "command"},
                         call |-> NoInvocation])
                ELSE ParseFailed
           [] t[i] = Marker ->
                LET v == ParseValue(t, i + 1) IN
                IF ~v.ok THEN ParseFailed
                ELSE ParseMembers(t, v.next,
                        [keys |-> {"tool"},
                         call |-> Invocation(v.value, Mapping({}), {"tool"})])
           [] OTHER -> ParseFailed

ParseMembers(t, j, acc) ==
    IF j > Len(t) THEN ParseFailed
    ELSE IF t[j] = Close
    THEN Parsed(j + 1, Mapping(acc.keys), [acc.call EXCEPT !.fields = acc.keys])
    ELSE IF t[j] = Params
    THEN LET v == ParseValue(t, j + 1) IN
         IF ~v.ok THEN ParseFailed
         ELSE ParseMembers(t, v.next,
                 [keys |-> acc.keys \cup {"parameters"},
                  call |-> Invocation(acc.call.tool, v.value, acc.keys)])
    ELSE ParseFailed

\* json.loads(block): the whole of the pieces must be one object.
Loads(pieces) ==
    LET t == SelectSeq(pieces, LAMBDA tok : tok # Space)
        v == ParseValue(t, 1)
    IN  IF v.ok /\ v.next = Len(t) + 1 /\ v.value.type = "dict" THEN v ELSE ParseFailed

NoMatch == [ok |-> FALSE, open |-> 0, close |-> 0, end |-> 0]

\* The match of ```json\s*(\{.*?\})\s*``` that starts at position i: the
\* group runs from the "{" to the first "}" that whitespace and ``` follow.
FencedMatch(t, i) ==
    IF i > Len(t) \/ t[i] # Fence THEN NoMatch
    ELSE LET o == SkipSpace(t, i + 1) IN
         IF o > Len(t) \/ t[o] \notin Opens THEN NoMatch
         ELSE LET ends == {e \in (o + 1)..Len(t) :
                              /\ t[e] = Close
                              /\ LET f == SkipSpace(t, e + 1)
                                 IN  f <= Len(t) /\ t[f] \in Fences}
              IN  IF ends = {} THEN NoMatch
                  ELSE [ok |-> TRUE, open |-> o, close |-> Min(ends),
                        end |-> SkipSpace(t, Min(ends) + 1)]

\* json_blocks (line 264): the groups re.findall returns from position i
\* on, left to right, the matches not overlapping.
RECURSIVE JsonBlocks(_, _)
JsonBlocks(t, i) ==
    IF i > Len(t) THEN << >>
    ELSE LET m == FencedMatch(t, i) IN
         IF ~m.ok THEN JsonBlocks(t, i + 1)
         ELSE <<SubSeq(t, m.open, m.close)>> \o JsonBlocks(t, m.end + 1)

\* Lines 265-268: json.loads of every block, the ones that fail to parse
\* left out.
RECURSIVE LoadBlocks(_, _)
LoadBlocks(blocks, calls) ==
    IF blocks = << >> THEN calls
    ELSE LET v == Loads(Head(blocks)) IN
         LoadBlocks(Tail(blocks), IF v.ok THEN Append(calls, v.call) ELSE calls)

\* Method 1 (lines 264-268) from position i on.
FencedBlocks(t, i, calls) == LoadBlocks(JsonBlocks(t, i), calls)

FindMarker_AnyObject(t, start) ==
    LET at == {i \in start..Len(t) : t[i] \in Opens}
    IN  IF at = {} THEN 0 ELSE Min(at)

\* response.find(Marker, start), 0 when there is none.
FindMarker(t, start) ==
    LET at == {i \in start..Len(t) : t[i] = Marker}
    IN  IF at = {} THEN 0 ELSE Min(at)

\* Lines 278-293: the position at which open_braces returns to 0, 0 when
\* it never does.
RECURSIVE BraceScan(_, _, _)
BraceScan(t, i, open_braces) ==
    IF i > Len(t) THEN 0
    ELSE IF open_braces + Braces(t[i]) = 0 THEN i
    ELSE BraceScan(t, i + 1, open_braces + Braces(t[i]))

\* Method 2 (lines 273-293): from each marker, scan to the balancing "}",
\* parse, and go on after it.
RECURSIVE MarkerScan(_, _, _)
MarkerScan(t, start, calls) ==
    LET start_idx == FindMarker(t, start) IN
    IF start_idx = 0 THEN calls
    ELSE LET i == BraceScan(t, start_idx, 0) IN
         IF i = 0 THEN calls
         ELSE LET v == IF t[i] = Close THEN Loads(SubSeq(t, start_idx, i))
                       ELSE ParseFailed
              IN  MarkerScan(t, i + 1, IF v.ok THEN Append(calls, v.call) ELSE calls)

\* _extract_tool_calls
ExtractToolCalls(t) ==
    LET tool_calls == FencedBlocks(t, 1, << >>) IN
    IF tool_calls # << >> THEN tool_calls ELSE MarkerScan(t, 1, << >>)

\* The end of the match of the first pattern of _clean_response at i (the
\* pattern of Method 1), 0 when there is none.
FencedEnd(t, i) == LET m == FencedMatch(t, i) IN IF m.ok THEN m.end ELSE 0

\* The end of the match at i of the second pattern: the marker, a quoted
\* string, the parameters key, and an object that ends in two adjacent
\* closing braces.
FullCallEnd(t, i) ==
    IF t[i] # Marker THEN 0
    ELSE LET x == SkipSpace(t, i + 1) IN
         IF x > Len(t) \/ t[x] \notin QuoteOpen THEN 0
         ELSE LET ends == {e \in (x + 3)..Len(t) :
                              /\ t[e] = Close /\ t[e - 1] = Close
                              /\ \E q \in x..(e - 3) :
                                    /\ t[q] \in QuoteEnd
                                    /\ LET p == SkipSpace(t, q + 1) IN
                                       /\ p <= Len(t) /\ t[p] = Params
                                       /\ LET o == SkipSpace(t, p + 1) IN
                                          /\ o <= e - 2 /\ t[o] \in Opens}
              IN  IF ends = {} THEN 0 ELSE Min(ends)

\* The end of the match at i of the third pattern: the marker, a quoted
\* string and a closing brace.
BareCallEnd(t, i) ==
    IF t[i] # Marker THEN 0
    ELSE LET x == SkipSpace(t, i + 1) IN
         IF x > Len(t) \/ t[x] \notin QuoteOpen THEN 0
         ELSE LET ends == {e \in (x + 1)..Len(t) :
                              /\ t[e] = Close
                              /\ \E q \in x..(e - 1) :
                                    t[q] \in QuoteEnd /\ SkipSpace(t, q + 1) = e}
              IN  IF ends = {} THEN 0 ELSE Min(ends)

PatternEnd(t, i, pattern) ==
    CASE pattern = 1 -> FencedEnd(t, i)
      [] pattern = 2 -> FullCallEnd(t, i)
      [] pattern = 3 -> BareCallEnd(t, i)

\* re.sub(pattern, '', response) from position i on.  A match of the first
\* pattern that closes on the ``` of a following ```json leaves its "json".
RECURSIVE Sub(_, _, _)
Sub(t, i, pattern) ==
    IF i > Len(t) THEN << >>
    ELSE LET e == PatternEnd(t, i, pattern) IN
         IF e = 0 THEN <<t[i]>> \o Sub(t, i + 1, pattern)
         ELSE (IF t[e] = Fence THEN <<Json>> ELSE << >>) \o Sub(t, e + 1, pattern)

\* str.strip()
RECURSIVE Strip(_)
Strip(t) ==
    IF t = << >> THEN t
    ELSE IF Head(t) = Space THEN Strip(Tail(t))
    ELSE IF t[Len(t)] = Space THEN Strip(SubSeq(t, 1, Len(t) - 1))
    ELSE t

TaskCompleted == <<"Task completed.">>

\* _clean_response
CleanResponse(response) ==
    IF response = << >> THEN TaskCompleted
    ELSE LET stripped == Strip(Sub(Sub(Sub(response, 1, 1), 1, 2), 1, 3))
         IN  IF stripped = << >> THEN TaskCompleted ELSE stripped

\* Most segments a text is put together from.
MaxSegments == 3

\* The stretches of text a response is put together from: the pieces, and
\* the tool call a ```json block of it carries when it is well formed.
Segment(pieces, fenced, inv) == [pieces |-> pieces, fenced |-> fenced, call |-> inv]

FsList      == Invocation(Str("fs_list"), Mapping({}), {"tool"})
FsListPath  == Invocation(Str("fs_list"), Mapping({"path"}), {"tool", "parameters"})
FsListEcho  == Invocation(Str("fs_list"), Mapping({"command"}), {"tool", "parameters"})
ListCall    == Invocation(JsonList("fs_list"), Mapping({}), {"tool"})

\* A tool call without a fence that is cut off.
TruncatedCall == <<Marker, Name, Params, Open>>

\* A JSON object that has no "tool" key.
PlainObject == <<Open, Member, Close>>

\* A tool call quoted inside braces that balance but hold no JSON.
NestedCall == <<Marker, Prose, Marker, Name, Close, Close>>

Segments ==
    { Segment(<<Prose>>, FALSE, NoInvocation),
      Segment(<<Space>>, FALSE, NoInvocation),
      \* well-formed fenced blocks
      Segment(<<Fence, Marker, Name, Close, FenceEnd>>, TRUE, FsList),
      Segment(<<Fence, Space, Marker, Name, Params, Open, Member, Close, Close,
                Space, FenceEnd>>, TRUE, FsListPath),
      Segment(<<Fence, Marker, ListName, Close, FenceEnd>>, TRUE, ListCall),
      \* a fenced object that is cut off, and one that is no JSON
      Segment(<<Fence, Open, Prose, FenceEnd>>, FALSE, NoInvocation),
      Segment(<<Fence, Open, Prose, Close, FenceEnd>>, FALSE, NoInvocation),
      \* an object without a "tool" key, fenced and not
      Segment(<<Fence>> \o PlainObject \o <<FenceEnd>>, FALSE, NoInvocation),
      Segment(PlainObject, FALSE, NoInvocation),
      \* a tool call inside a span that balances and does not parse
      Segment(NestedCall, FALSE, NoInvocation),
      \* tool calls without a fence: whole, cut off, with a "}" inside a
      \* string, and with a space before the last "}"
      Segment(<<Marker, Name, Params, Open, Member, Close, Close>>, FALSE, FsListPath),
      Segment(TruncatedCall, FALSE, NoInvocation),
      Segment(<<Marker, Name, Params, Open, BraceMember, Close, Close>>, FALSE, FsListEcho),
      Segment(<<Marker, Name, Params, Open, Member, Close, Space, Close>>, FALSE, FsListPath) }

SegmentLists == UNION {[1..n -> Segments] : n \in 0..MaxSegments}

RECURSIVE Flatten(_)
Flatten(segs) ==
    IF segs = << >> THEN << >> ELSE Head(segs).pieces \o Flatten(Tail(segs))

\* segments: what the text was put together from; response: the text, as
\* _call_llm returns it (stripped).
IdleExtraction == [pc |-> "idle", segments |-> << >>, response |-> << >>,
                   tool_calls |-> << >>, cleaned |-> << >>]

ToolInit ==
    /\ tool_exec = IdleExec
    /\ extraction = IdleExtraction
    /\ insertion = IdleInsertion

\* A text has been generated and is about to be examined.
ExtractInit ==
    /\ tool_exec = IdleExec
    /\ insertion = IdleInsertion
    /\ \E segs \in SegmentLists :
          extraction = [IdleExtraction EXCEPT !.pc = "response", !.segments = segs,
                                              !.response = Strip(Flatten(segs))]

\* tool_calls = self._extract_tool_calls(response)
Extract ==
    /\ extraction.pc = "response"
    /\ extraction' = [extraction EXCEPT !.pc = "extracted",
                         !.tool_calls = ExtractToolCalls(extraction.response)]
    /\ UNCHANGED <<schedVars, agentVars, cmdVars, tool_exec, insertion>>

\* final_response = self._clean_response(response), when there is no tool call
Clean ==
    /\ extraction.pc = "extracted"
    /\ extraction.tool_calls = << >>
    /\ extraction' = [extraction EXCEPT !.pc = "cleaned",
                         !.cleaned = CleanResponse(extraction.response)]
    /\ UNCHANGED <<schedVars, agentVars, cmdVars, tool_exec, insertion>>

ExtractNext == Extract \/ Clean

\* The well-formed fenced blocks of the text, in order of appearance, and
\* the tool calls they carry.
FencedSegments(segs) == SelectSeq(segs, LAMBDA sg : sg.fenced)

FencedCalls(segs) ==
    [i \in 1..Len(FencedSegments(segs)) |-> FencedSegments(segs)[i].call]

\* C20: for a text that contains k >= 1 well-formed fenced blocks, extract
\* returns exactly the k calls of those blocks, in order of appearance, and
\* no call found by the marker scan.
C20_FencedBlocksReturned ==
    ( /\ extraction.pc \in {"extracted", "cleaned"}
      /\ Len(FencedSegments(extraction.segments)) >= 1 )
    => extraction.tool_calls = FencedCalls(extraction.segments)

\* The same for the texts in which every fence opens a well-formed block.
C20_WhenEveryFenceIsWellFormed ==
    ( /\ extraction.pc \in {"extracted", "cleaned"}
      /\ Len(FencedSegments(extraction.segments)) >= 1
      /\ \A i \in 1..Len(extraction.segments) :
            Head(extraction.segments[i].pieces) = Fence => extraction.segments[i].fenced )
    => extraction.tool_calls = FencedCalls(extraction.segments)

\* Three well-formed fenced blocks, and three calls returned.
C20_ThreeBlocks ==
    /\ extraction.pc = "extracted"
    /\ Len(FencedSegments(extraction.segments)) = 3
    /\ Len(extraction.tool_calls) = 3

\* A segment that is a whole tool call without a fence, and one that is
\* only prose or whitespace.
WellFormedBare(sg) == ~sg.fenced /\ sg.call # NoInvocation

ProseOnly(sg) == sg.pieces \in {<<Prose>>, <<Space>>}

\* C21: for a text with one well-formed tool call without a fence followed
\* by a cut-off one (prose before it or not), extract returns exactly the
\* well-formed call.
C21_MalformedTailDropped ==
    LET segs == extraction.segments
        n    == Len(segs)
    IN  ( /\ extraction.pc \in {"extracted", "cleaned"}
          /\ n >= 2
          /\ WellFormedBare(segs[n - 1])
          /\ segs[n].pieces = TruncatedCall
          /\ \A i \in 1..(n - 2) : ProseOnly(segs[i]) )
        => extraction.tool_calls = <<segs[n - 1].call>>

\* The same for the well-formed calls that have no brace inside a string.
C21_WhenNoBraceInString ==
    LET segs == extraction.segments
        n    == Len(segs)
    IN  ( /\ extraction.pc \in {"extracted", "cleaned"}
          /\ n >= 2
          /\ WellFormedBare(segs[n - 1])
          /\ \A j \in 1..Len(segs[n - 1].pieces) : segs[n - 1].pieces[j] # BraceMember
          /\ segs[n].pieces = TruncatedCall
          /\ \A i \in 1..(n - 2) : ProseOnly(segs[i]) )
        => extraction.tool_calls = <<segs[n - 1].call>>

Contains(t, tok) == \E i \in 1..Len(t) : t[i] = tok

\* C22: for a text that contains neither the opening of a fenced json block
\* nor the marker, extract returns the empty list.
C22_NoMarkerNoCalls ==
    ( /\ extraction.pc \in {"extracted", "cleaned"}
      /\ ~Contains(extraction.response, Fence)
      /\ ~Contains(extraction.response, Marker) )
    => extraction.tool_calls = << >>

\* A text of JSON objects and prose, without fence or marker, has been
\* examined and no call was found.
C22_Witness ==
    /\ extraction.pc = "extracted"
    /\ Len(extraction.segments) = 3
    /\ extraction.segments[1].pieces = PlainObject
    /\ extraction.segments[3].pieces = PlainObject
    /\ ~Contains(extraction.response, Fence)
    /\ ~Contains(extraction.response, Marker)
    /\ extraction.tool_calls = << >>

\* The span the brace scan delimits for the marker at position s parses
\* (lines 285-288), or balances and fails to parse (lines 289-291).
SpanEnd(t, s) == BraceScan(t, s, 0)

SpanParses(t, s) ==
    /\ SpanEnd(t, s) # 0
    /\ t[SpanEnd(t, s)] = Close
    /\ Loads(SubSeq(t, s, SpanEnd(t, s))).ok

SpanFails(t, s) == SpanEnd(t, s) # 0 /\ ~SpanParses(t, s)

InSeqOf(x, calls) == \E i \in 1..Len(calls) : calls[i] = x

\* C31: when no fenced block yields a call and the span of the first
\* marker of the text balances but fails to parse, the scan goes on one
\* position after that marker: a well-formed tool call that begins at the
\* next marker, inside the failed span, is among the calls returned.
C31_ResumesAfterMarker ==
    LET t == extraction.response
        s == FindMarker(t, 1)
        j == FindMarker(t, s + 1)
    IN  ( /\ extraction.pc \in {"extracted", "cleaned"}
          /\ FencedBlocks(t, 1, << >>) = << >>
          /\ s # 0 /\ SpanFails(t, s)
          /\ j # 0 /\ j <= SpanEnd(t, s)
          /\ SpanParses(t, j) )
        => InSeqOf(Loads(SubSeq(t, j, SpanEnd(t, j))).call, extraction.tool_calls)

\* C32: for a text that is one well-formed tool call without a fence (prose
\* before it or not), extract returns that call intact, whether or not a
\* string value of it contains a brace.
C32_BracesInStringsSkipped ==
    LET segs == extraction.segments
        n    == Len(segs)
    IN  ( /\ extraction.pc \in {"extracted", "cleaned"}
          /\ n >= 1
          /\ WellFormedBare(segs[n])
          /\ \A i \in 1..(n - 1) : ProseOnly(segs[i]) )
        => extraction.tool_calls = <<segs[n].call>>

\* The same for the calls that have no brace inside a string.
C32_WhenNoBraceInString ==
    LET segs == extraction.segments
        n    == Len(segs)
    IN  ( /\ extraction.pc \in {"extracted", "cleaned"}
          /\ n >= 1
          /\ WellFormedBare(segs[n])
          /\ ~Contains(segs[n].pieces, BraceMember)
          /\ \A i \in 1..(n - 1) : ProseOnly(segs[i]) )
        => extraction.tool_calls = <<segs[n].call>>

\* The parsed object has a name field and a parameters field.
HasFields(inv) == {"tool", "parameters"} \subseteq inv.fields

BlockParses(block) == Loads(block).ok /\ HasFields(Loads(block).call)

\* C30: extract returns the calls of the fenced blocks when there is a
\* fenced block and every fenced block parses as an object with a name and
\* a parameters field; otherwise it returns what the marker scan finds;
\* every call returned has a name and parameters.
C30_FencedAllOrNothing ==
    extraction.pc \in {"extracted", "cleaned"} =>
        LET t      == extraction.response
            blocks == JsonBlocks(t, 1)
        IN  /\ \A i \in 1..Len(extraction.tool_calls) :
                  HasFields(extraction.tool_calls[i])
            /\ IF blocks # << >> /\ \A i \in 1..Len(blocks) : BlockParses(blocks[i])
               THEN extraction.tool_calls = [i \in 1..Len(blocks) |-> Loads(blocks[i]).call]
               ELSE extraction.tool_calls = MarkerScan(t, 1, << >>)

ExecuteTool(name, parameters) ==
    /\ tool_exec.pc \in {"idle", "done"}
    /\ tool_exec' = Dispatch(name, parameters)
    /\ insertion' = IdleInsertion
    /\ UNCHANGED <<schedVars, agentVars, cmdVars, extraction>>

HandlerReturn(outcome) ==
    /\ tool_exec.pc = "handler"
    /\ tool_exec' = Handled(tool_exec, outcome)
    /\ UNCHANGED <<schedVars, agentVars, cmdVars, extraction, insertion>>

\* The handler's asyncio.wait_for has timed out (terminal_execute, line 441).
HandlerTimeout ==
    /\ tool_exec.pc = "handler"
    /\ tool_exec.tool_name.value \in BoundedHandlers
    /\ tool_exec' = Handled(tool_exec, "timeout")
    /\ UNCHANGED <<schedVars, agentVars, cmdVars, extraction, insertion>>

\* process_task lines 151-157, after an execute_tool call that returned: the
\* result is serialised (to n characters), cut, and put into the message.
InsertResult(n) ==
    /\ tool_exec.pc = "done" /\ ~tool_exec.raised
    /\ insertion.pc = "idle"
    /\ insertion' = [pc |-> "inserted", result_str |-> ResultStr(n),
                     content |-> ToolResultContent(tool_exec.tool_name,
                                                   Truncate(ResultStr(n)))]
    /\ UNCHANGED <<schedVars, agentVars, cmdVars, tool_exec, extraction>>

\* C12: execute_tool never raises, whatever the name and the parameters are;
\* a handler that raises ends in a success=False result with its message.
C12_ExecuteNeverRaises ==
    tool_exec.pc = "done" =>
        /\ ~tool_exec.raised
        /\ tool_exec.handler = "raise" =>
               tool_exec.result = ToolResult(FALSE, HandlerError, "")

\* C13: a name that is not in tool_methods yields the success=False
\* unknown-tool result, and no handler runs.
C13_UnknownToolResult ==
    (tool_exec.pc = "done" /\ ~Registered(tool_exec.tool_name)) =>
        /\ ~tool_exec.raised
        /\ tool_exec.result = ToolResult(FALSE, UnknownTool, "")
        /\ tool_exec.handler = "none"

\* The parameters the tool's definition requires and the call lacks.
MissingRequired(e) == tool_definitions[e.tool_name.value] \ e.parameters.keys

\* C14: when a parameter the tool's definition requires is missing, the
\* handler does not run and the result is success=False with an error that
\* no handler failure produces.
C14_MissingParameterRejected ==
    ( /\ tool_exec.pc \in {"handler", "done"}
      /\ Registered(tool_exec.tool_name)
      /\ tool_exec.parameters.type = "dict"
      /\ MissingRequired(tool_exec) # {} ) =>
        /\ tool_exec.pc = "done"
        /\ tool_exec.handler = "none"
        /\ ~tool_exec.raised
        /\ ~tool_exec.result.success
        /\ tool_exec.result.error \in {MissingError, UnexpectedError}
        /\ tool_exec.result.error # HandlerError

\* The case C14 is about where the signature agrees with the definition:
\* terminal_execute without "command" is rejected before its body runs.
C14_SignatureRejects ==
    /\ tool_exec.pc = "done"
    /\ tool_exec.tool_name = Str("terminal_execute")
    /\ tool_exec.parameters = Mapping({})
    /\ tool_exec.result = ToolResult(FALSE, MissingError, "")
    /\ tool_exec.handler = "none"

\* C24: the text put into the history holds the serialised result cut to
\* at most 500 characters: the result itself when it has 500 characters or
\* fewer, its first 500 characters followed by the truncation marker when
\* it has more; the marker is there exactly when the result was longer.
C24_ResultTruncated ==
    insertion.pc = "inserted" =>
        LET result_str == insertion.result_str
            prefix     == ToolResultContent(tool_exec.tool_name, << >>)
            inserted   == SubSeq(insertion.content, Len(prefix) + 1, Len(insertion.content))
            marked     == /\ Len(inserted) >= Len(TruncationMarker)
                          /\ SubSeq(inserted, Len(inserted) - Len(TruncationMarker) + 1,
                                    Len(inserted)) = TruncationMarker
        IN  /\ SubSeq(insertion.content, 1, Len(prefix)) = prefix
            /\ Len(inserted) <= TruncateAt + Len(TruncationMarker)
            /\ marked <=> Len(result_str) > TruncateAt
            /\ Len(result_str) <= TruncateAt => inserted = result_str
            /\ Len(result_str) > TruncateAt =>
                   /\ Len(inserted) = TruncateAt + Len(TruncationMarker)
                   /\ \A i \in 1..TruncateAt : inserted[i] = result_str[i]

\* A result of 501 characters has been put in cut and marked, ...
C24_Witness ==
    /\ insertion.pc = "inserted"
    /\ Len(insertion.result_str) = TruncateAt + 1
    /\ Len(insertion.content) =
           Len(ToolResultContent(tool_exec.tool_name, << >>)) + TruncateAt
               + Len(TruncationMarker)
    /\ insertion.content[Len(insertion.content)] = "D"

\* ... and one of 500 characters as it is.
C24_WitnessWhole ==
    /\ insertion.pc = "inserted"
    /\ Len(insertion.result_str) = TruncateAt
    /\ Len(insertion.content) =
           Len(ToolResultContent(tool_exec.tool_name, << >>)) + TruncateAt

\* C29: a handler whose timeout strikes ends in a success=False result that
\* says so, never in a success=True result.
C29_TimeoutIsFailure ==
    (tool_exec.pc = "done" /\ tool_exec.handler = "timeout") =>
        /\ ~tool_exec.result.success
        /\ tool_exec.result.error # NoError

ToolNext ==
    \/ \E name \in ToolNameValues, parameters \in ParameterValues :
          ExecuteTool(name, parameters)
    \/ \E outcome \in HandlerOutcomes : HandlerReturn(outcome)
    \/ HandlerTimeout
    \/ \E n \in ResultLens : InsertResult(n)

(***************************************************************************)
(* AutonomousAgent.  process_task gives up control only at its awaits      *)
(* (_call_llm, execute_tool, the callbacks); an action runs from one of    *)
(* them to the next.  halt() and other calls run in between.               *)
(***************************************************************************)

\* Largest max_iterations an agent is constructed with.
MaxIterations == 2

\* Largest number of tool calls extracted from one response.
MaxToolCalls == 2

\* A new task is submitted to an agent only while its history holds at most
\* this many messages.
MaxBacklog == 6

\* The same, where tasks are submitted to an agent that is still busy.
MaxBusyBacklog == 1

\* The same, where every kind of response is explored.
MaxReplyBacklog == 2

\* The same, per agent, where every agent has its own tasks.
MaxSessionBacklog == 0

\* thread_agents' keys, and the process_task calls that may be in progress.
Agents == {"main", "t1"}

Calls == {"c1", "c2"}

\* self._max_history
max_history == 6

\* A message of the chat API; its content is a text (a sequence of pieces).
\* seq is the message's position in its agent's conversation_history (0 for
\* the preamble); it tells apart messages of equal role and text.
Message(role, content, seq) == [role |-> role, content |-> content, seq |-> seq]

AGENT_SYSTEM_PROMPT == Message("system", <<"AGENT_SYSTEM_PROMPT">>, 0)

TaskText == <<"task">>

\* f"TOOL_RESULT({tool_name}): {result_str}", result_str cut at 500 characters
ToolResultText == <<"TOOL_RESULT">>

\* The texts _call_llm returns instead of raising (lines 250-256).
TimeoutText == <<"Error: I timed out while thinking. Please try again.">>
ConnectText == <<"Error: Could not connect to Ollama. Please make sure the Ollama service is running.">>

\* n well-formed fenced tool calls, one after the other.
RECURSIVE ToolText(_)
ToolText(n) ==
    IF n = 0 THEN << >>
    ELSE ToolText(n - 1) \o <<Fence, Marker, Name, Close, FenceEnd>>

\* A tool call whose "tool" is a list.
ListToolText == <<Fence, Marker, ListName, Close, FenceEnd>>

\* An answer with the remains of a tool call that is no JSON.
ResidueText == <<Prose, Space, Fence, Open, Prose, Close, FenceEnd>>

\* More tool calls in one response than the window holds messages.
BurstText == ToolText(max_history + 1)

\* What the generation service does to a _call_llm: it streams a text
\* (on_chunk, called per fragment, may raise), or the call times out, the
\* connection fails, or it fails in another way.
Response(kind, text, on_chunk) == [kind |-> kind, text |-> text, on_chunk |-> on_chunk]

\* The responses of the runs that explore long histories and overlapping
\* calls.
PlainResponses ==
    {Response("fails", << >>, "ok")}
    \cup {Response("text", t, "ok") :
              t \in {<< >>, <<Prose>>} \cup {ToolText(n) : n \in 1..MaxToolCalls}}

Responses ==
    PlainResponses
    \cup {Response("timeout", << >>, "ok"), Response("connection", << >>, "ok")}
    \cup {Response("text", t, oc) :
              t \in {<<Prose>>, ResidueText, ListToolText, BurstText},
              oc \in {"ok", "raises"}}

\* _call_llm: the text it returns, stripped; the on_chunk exceptions are
\* swallowed (lines 243-246).  raised: the exception leaves _call_llm.
CallLLM(resp) ==
    CASE resp.kind = "text"       -> [raised |-> FALSE, response |-> Strip(resp.text)]
      [] resp.kind = "timeout"    -> [raised |-> FALSE, response |-> TimeoutText]
      [] resp.kind = "connection" -> [raised |-> FALSE, response |-> ConnectText]
      [] resp.kind = "fails"      -> [raised |-> TRUE, response |-> << >>]

\* The values final_response takes.
NoResponse  == << >>
HaltedMsg   == <<"Task halted by user.">>
ApologyMsg  == <<"I apologize, I couldn't generate a response.">>
ErrorMsg(e) == <<"I encountered an error: ", e>>
AnswerMsg   == <<Prose>>

\* str(e) of what the except clause of the loop catches.
GenerationFailed == "generation failed"
CallbackFailed   == "callback failed"

NoAgent == "none"

\* The locals of a process_task call and its position.  tool_calls: the
\* calls of the response still to be executed (pending of them); results:
\* the messages the tools of the latest iteration with tools appended;
\* llm_failed: the generation service failed in this call; returned: how the
\* last call ended ("value" or "raised"), "none" before the first.
IdleCall == [pc |-> "idle", agent |-> NoAgent, iteration |-> 0, messages |-> << >>,
             pending |-> 0, actions |-> 0, final_response |-> NoResponse,
             llm_calls |-> 0, tool_calls |-> << >>, results |-> << >>,
             llm_failed |-> FALSE, returned |-> "none"]

\* Python's h[-n:]
LastN(h, n) ==
    IF n = 0 \/ Len(h) <= n THEN h ELSE SubSeq(h, Len(h) - n + 1, Len(h))

WindowOf_Oldest(h) ==
    <<AGENT_SYSTEM_PROMPT>> \o (IF Len(h) <= max_history THEN h ELSE SubSeq(h, 1, max_history))

WindowOf_Unbounded(h) == <<AGENT_SYSTEM_PROMPT>> \o h

\* Lines 119-121: the preamble followed by the last max_history messages.
WindowOf(h) == <<AGENT_SYSTEM_PROMPT>> \o LastN(h, max_history)

Append_(h, role, content) == Append(h, Message(role, content, Len(h) + 1))

HaltRequested_Never(flag) == FALSE

\* if self._halt_flag:
HaltRequested(flag) == flag

LoopContinues_Unbounded(iteration) == TRUE

\* for iteration in range(self.max_iterations):
LoopContinues(iteration) == iteration < max_iterations

\* Lines 113-125, from the top of the loop to the await of _call_llm: the
\* loop ends, or the halt flag ends it, or the window is built and the
\* generation call is issued.
IterationHead(cl, history, flag) ==
    IF ~LoopContinues(cl.iteration)
    THEN [cl EXCEPT !.pc = "complete"]
    ELSE IF HaltRequested(flag)
    THEN [cl EXCEPT !.pc = "complete", !.final_response = HaltedMsg]
    ELSE [cl EXCEPT !.pc = "llm", !.messages = WindowOf(history),
                    !.llm_calls = @ + 1]

AgentInit ==
    /\ max_iterations \in 1..MaxIterations
    /\ conversation_history = [a \in Agents |-> << >>]
    /\ halt_flag = [a \in Agents |-> FALSE]
    /\ call = [c \in Calls |-> IdleCall]

\* The agents as constructed, with no task submitted.
AgentQuiet ==
    /\ max_iterations = 1
    /\ conversation_history = [a \in Agents |-> << >>]
    /\ halt_flag = [a \in Agents |-> FALSE]
    /\ call = [c \in Calls |-> IdleCall]

\* process_task lines 90-125: clear the halt flag, append the user message,
\* enter the loop and issue the first generation call.
Start(c, a) ==
    /\ call[c].pc = "idle"
    /\ halt_flag' = [halt_flag EXCEPT ![a] = FALSE]
    /\ LET history == Append_(conversation_history[a], "user", TaskText) IN
       /\ conversation_history' = [conversation_history EXCEPT ![a] = history]
       /\ call' = [call EXCEPT ![c] =
                     IterationHead([IdleCall EXCEPT !.agent = a], history, FALSE)]
    /\ UNCHANGED <<max_iterations, schedVars, toolVars, cmdVars>>

\* Lines 125-175: _call_llm has ended; the response is examined.  The
\* window handed to the call is dropped: the next iteration builds its own.
LLMReturn(c, resp) ==
    /\ call[c].pc = "llm"
    /\ LET a          == call[c].agent
           llm        == CallLLM(resp)
           response   == llm.response
           tool_calls == ExtractToolCalls(response)
           cl         == [call[c] EXCEPT !.messages = << >>,
                                         !.llm_failed = resp.kind # "text"]
       IN
       IF llm.raised
       THEN /\ call' = [call EXCEPT ![c] =
                          [cl EXCEPT !.pc = "complete",
                                     !.final_response = ErrorMsg(GenerationFailed)]]
            /\ UNCHANGED conversation_history
       ELSE IF response = << >>
       THEN /\ call' = [call EXCEPT ![c] =
                          [cl EXCEPT !.pc = "complete", !.final_response = ApologyMsg]]
            /\ UNCHANGED conversation_history
       ELSE IF tool_calls # << >>
       THEN /\ call' = [call EXCEPT ![c] =
                          [cl EXCEPT !.pc = "tool", !.tool_calls = tool_calls,
                                     !.pending = Len(tool_calls), !.results = << >>]]
            /\ UNCHANGED conversation_history
       ELSE /\ call' = [call EXCEPT ![c] =
                          [cl EXCEPT !.pc = "callback",
                                     !.final_response = CleanResponse(response)]]
            /\ conversation_history' =
                  [conversation_history EXCEPT
                      ![a] = Append_(conversation_history[a], "assistant", response)]
    /\ UNCHANGED <<max_iterations, halt_flag, schedVars, toolVars, cmdVars>>

\* Lines 142-160: execute_tool has ended.  Its result is recorded and
\* appended, then the next tool call is dispatched or the loop goes round;
\* an exception out of execute_tool is taken by the loop's except clause.
ToolReturn(c, outcome) ==
    /\ call[c].pc = "tool"
    /\ LET a        == call[c].agent
           tool     == Head(call[c].tool_calls)
           executed == execute_tool(tool.tool, tool.parameters, outcome)
           history  == Append_(conversation_history[a], "user", ToolResultText)
           done     == [call[c] EXCEPT !.actions = @ + 1, !.pending = @ - 1,
                                       !.tool_calls = Tail(@),
                                       !.results = Append(@, history[Len(history)])]
       IN
       IF executed.raised
       THEN /\ call' = [call EXCEPT ![c].pc = "complete", ![c].tool_calls = << >>,
                                    ![c].pending = 0,
                                    ![c].final_response = ErrorMsg(executed.result.error)]
            /\ UNCHANGED conversation_history
       ELSE /\ conversation_history' = [conversation_history EXCEPT ![a] = history]
            /\ call' = [call EXCEPT ![c] =
                          IF done.pending > 0
                          THEN done
                          ELSE IterationHead([done EXCEPT !.iteration = @ + 1],
                                             history, halt_flag[a])]
    /\ UNCHANGED <<max_iterations, halt_flag, schedVars, toolVars, cmdVars>>

\* Lines 169-175: `await callback(final_response, "assistant")` has ended,
\* normally or with an exception, which the loop's except clause takes.
CallbackReturn(c, ok) ==
    /\ call[c].pc = "callback"
    /\ call' = [call EXCEPT ![c].pc = "complete",
                            ![c].final_response =
                                IF ok THEN @ ELSE ErrorMsg(CallbackFailed)]
    /\ UNCHANGED <<max_iterations, conversation_history, halt_flag, schedVars, toolVars, cmdVars>>

\* Lines 184-190: `await callback("Task complete", "system")` has ended and
\* process_task returns its result (ok), or the callback's exception leaves
\* it.  The call's locals are gone either way.
Return(c, ok) ==
    /\ call[c].pc = "complete"
    /\ call' = [call EXCEPT ![c] =
                  [IdleCall EXCEPT !.returned = IF ok THEN "value" ELSE "raised"]]
    /\ UNCHANGED <<max_iterations, conversation_history, halt_flag, schedVars, toolVars, cmdVars>>

Halt_Preempts(a) ==
    /\ halt_flag' = [halt_flag EXCEPT ![a] = TRUE]
    /\ call' = [c \in Calls |->
                  IF call[c].pc = "llm" /\ call[c].agent = a
                  THEN [call[c] EXCEPT !.pc = "complete", !.messages = << >>,
                                       !.final_response = HaltedMsg]
                  ELSE call[c]]
    /\ UNCHANGED <<max_iterations, conversation_history, schedVars, toolVars, cmdVars>>

\* halt()
Halt(a) ==
    /\ halt_flag' = [halt_flag EXCEPT ![a] = TRUE]
    /\ UNCHANGED <<max_iterations, conversation_history, call, schedVars, toolVars, cmdVars>>

ClearHistory_Every(a) ==
    /\ conversation_history' = [b \in Agents |-> << >>]
    /\ UNCHANGED <<max_iterations, halt_flag, call, schedVars, toolVars, cmdVars>>

\* clear_history()
ClearHistory(a) ==
    /\ conversation_history' = [conversation_history EXCEPT ![a] = << >>]
    /\ UNCHANGED <<max_iterations, halt_flag, call, schedVars, toolVars, cmdVars>>

(***************************************************************************)
(* Agent loop: claims                                                      *)
(***************************************************************************)

\* The tool calls a process_task call has handed to execute_tool so far.
Dispatched(cl) == cl.actions + (IF cl.pc = "tool" THEN 1 ELSE 0)

\* An upper bound on the steps a call still takes before it returns.
Rank(cl) ==
    LET left == max_iterations - cl.iteration IN
    CASE cl.pc = "idle"     -> 0
      [] cl.pc = "complete" -> 1
      [] cl.pc = "callback" -> 2
      [] cl.pc = "llm"      -> left * (MaxToolCalls + 1) + 2
      [] cl.pc = "tool"     -> (left - 1) * (MaxToolCalls + 1) + 2 + cl.pending

\* C3: whatever the generation service and the tools answer, a process_task
\* call issues at most max_iterations + 1 generation calls, and every step
\* it takes brings it closer to its return.
C3_BoundedGenerationCalls ==
    [][\A c \in Calls :
          /\ call'[c].llm_calls <= max_iterations + 1
          /\ (call[c].pc # "idle" /\ call'[c] # call[c]) =>
                 /\ Rank(call[c]) > 0
                 /\ Rank(call'[c]) < Rank(call[c])
                 /\ Rank(call'[c]) >= 0]_vars

\* C3 witness: every generation call of a task answered with tool calls; the
\* loop has run max_iterations times and the call is about to return.
C3_Witness ==
    \E c \in Calls :
        /\ max_iterations = MaxIterations
        /\ call[c].pc = "complete" /\ call[c].final_response = NoResponse
        /\ call[c].llm_calls = max_iterations
        /\ call[c].actions = max_iterations * MaxToolCalls

NonSystem(w) == SelectSeq(w, LAMBDA m : m.role # "system")

InSeq(m, w) == \E i \in 1..Len(w) : w[i] = m

\* C4: at every generation call the window holds at most max_history
\* non-system messages; the messages left out are older than every message
\* kept; nothing is left out while the history has at most max_history
\* messages; and the window begins with the system message.
C4_WindowBounded ==
    \A c \in Calls :
        call[c].pc = "llm" =>
            LET w == call[c].messages
                h == conversation_history[call[c].agent]
            IN  /\ Len(NonSystem(w)) <= max_history
                /\ Len(w) >= 1 /\ w[1].role = "system"
                /\ \A i \in 1..Len(h) :
                      ~InSeq(h[i], w) =>
                          /\ Len(h) > max_history
                          /\ \A j \in 1..Len(w) :
                                w[j].role # "system" => h[i].seq < w[j].seq

\* C4 witness: a generation call is in flight on a history of more than
\* max_history messages.
C4_Witness ==
    \E c \in Calls :
        /\ call[c].pc = "llm"
        /\ Len(conversation_history[call[c].agent]) >= max_history + 2
        /\ Len(NonSystem(call[c].messages)) = max_history

\* C5: the window of a generation call is the preamble followed by the
\* min(max_history, length) most recently appended messages, in the order
\* they were appended.
C5_WindowIsRecentSuffix ==
    \A c \in Calls :
        call[c].pc = "llm" =>
            LET w == call[c].messages
                h == conversation_history[call[c].agent]
                n == IF Len(h) < max_history THEN Len(h) ELSE max_history
            IN  /\ Len(w) = n + 1
                /\ w[1] = AGENT_SYSTEM_PROMPT
                /\ \A i \in 1..n : w[1 + i] = h[Len(h) - n + i]
                /\ \A i \in 1..n : w[1 + i].role # "system"

\* C5 witness: a window of exactly max_history messages after the preamble
\* whose first kept message is not the first message of the history.
C5_Witness ==
    \E c \in Calls :
        /\ call[c].pc = "llm"
        /\ Len(call[c].messages) = max_history + 1
        /\ call[c].messages[2].seq > 1
        /\ \E i \in 2..Len(call[c].messages) : call[c].messages[i].role = "assistant"

\* The step on which call c reaches the top of the loop for another
\* iteration: its last pending tool call has ended and iterations remain.
AtBoundary(c) ==
    /\ call[c].pc = "tool" /\ call[c].pending = 1
    /\ call'[c].actions = call[c].actions + 1
    /\ call[c].iteration + 1 < max_iterations

\* C6: at the top of an iteration with the halt flag set the call stops with
\* "Task halted by user."; from then on it issues no generation call and
\* dispatches no tool, and only returns.
C6_HaltAtBoundary ==
    [][\A c \in Calls :
          /\ (AtBoundary(c) /\ halt_flag[call[c].agent]) =>
                 /\ call'[c].pc = "complete"
                 /\ call'[c].final_response = HaltedMsg
                 /\ call'[c].llm_calls = call[c].llm_calls
                 /\ Dispatched(call'[c]) = call[c].actions + 1
          /\ (call[c].final_response = HaltedMsg /\ call'[c] # call[c]) =>
                 call'[c].pc = "idle"]_vars

\* C6 witness: a call that had dispatched tools was halted at the boundary.
C6_Witness ==
    \E c \in Calls :
        /\ call[c].pc = "complete" /\ call[c].final_response = HaltedMsg
        /\ call[c].actions > 0
        /\ call[c].llm_calls < max_iterations

\* C7: an iteration is entered, and so its tools are dispatched, only with
\* the halt flag clear at its top; setting the flag leaves every running
\* call where it is, and a generation call in flight when the flag is set
\* ends as it would have: its response is handled, never replaced by the
\* halted outcome.
C7_HaltOnlyAtBoundary ==
    [][\A c \in Calls :
          /\ (call[c].pc = "tool" /\ call'[c].pc = "llm") =>
                 ~halt_flag[call[c].agent]
          /\ (call[c].pc = "tool" /\ call[c].pending = 1 /\ call'[c] # call[c]
                /\ halt_flag[call[c].agent]) =>
                 Dispatched(call'[c]) <= call[c].actions + 1
          /\ (\E a \in Agents : halt_flag'[a] /\ ~halt_flag[a]) => call'[c] = call[c]
          /\ (call[c].pc = "llm" /\ call'[c] # call[c]) =>
                 /\ call'[c].pc \in {"tool", "callback", "complete"}
                 /\ call'[c].final_response # HaltedMsg
                 /\ call'[c].iteration = call[c].iteration]_vars

\* C7 witness: in an iteration after the first, the flag is set while the
\* generation call is in flight (it was clear when the iteration began).
C7_Witness ==
    \E c \in Calls :
        /\ call[c].pc = "llm" /\ call[c].iteration >= 1
        /\ call[c].actions >= 1
        /\ halt_flag[call[c].agent]

\* C15 as claimed: when a generation call after the first is issued, every
\* tool result of the iteration before is in the history and in the window
\* handed to the call, however many tool calls that iteration dispatched.
C15_ResultsInNextWindow ==
    \A c \in Calls :
        (call[c].pc = "llm" /\ call[c].iteration >= 1) =>
            \A i \in 1..Len(call[c].results) :
                /\ InSeq(call[c].results[i], conversation_history[call[c].agent])
                /\ InSeq(call[c].results[i], call[c].messages)

\* C15 amended: every tool result of the iteration before is in the history
\* when the next generation call is issued; the window of that call holds
\* those of them that are among the max_history newest messages of the
\* history, and the newest result, which is the newest message, always.
C15_RecentResultsInNextWindow ==
    \A c \in Calls :
        (call[c].pc = "llm" /\ call[c].iteration >= 1) =>
            LET r == call[c].results
                h == conversation_history[call[c].agent]
                w == call[c].messages
            IN  /\ Len(r) >= 1
                /\ \A i \in 1..Len(r) : InSeq(r[i], h)
                /\ \A i \in 1..Len(r) :
                      r[i].seq > Len(h) - max_history => InSeq(r[i], w)
                /\ w[Len(w)] = r[Len(r)]

\* C15 witness: an iteration dispatched more tool calls than the window
\* holds; the next generation call is issued with the newest max_history
\* results in its window and the oldest one left out.
C15_Witness ==
    \E c \in Calls :
        /\ call[c].pc = "llm" /\ call[c].iteration >= 1
        /\ Len(call[c].results) = max_history + 1
        /\ ~InSeq(call[c].results[1], call[c].messages)
        /\ \A i \in 2..(max_history + 1) : InSeq(call[c].results[i], call[c].messages)

\* C16: when no tool call is extracted from a (non-empty) response, exactly
\* one message is appended, an assistant message; the call goes on to
\* complete with the cleaned response as its answer, and that answer is the
\* content of the message appended.
C16_AnswerIsAppendedMessage ==
    [][\A c \in Calls :
          (call[c].pc = "llm" /\ call'[c].pc = "callback") =>
              LET h  == conversation_history[call[c].agent]
                  h2 == conversation_history'[call[c].agent]
              IN  /\ Len(h2) = Len(h) + 1
                  /\ SubSeq(h2, 1, Len(h)) = h
                  /\ h2[Len(h2)].role = "assistant"
                  /\ call'[c].final_response = CleanResponse(h2[Len(h2)].content)
                  /\ call'[c].final_response = h2[Len(h2)].content]_vars

\* The part of C16 that does not compare the answer with the history.
C16_CleanedAnswerAndOneMessage ==
    [][\A c \in Calls :
          (call[c].pc = "llm" /\ call'[c].pc = "callback") =>
              LET h  == conversation_history[call[c].agent]
                  h2 == conversation_history'[call[c].agent]
              IN  /\ Len(h2) = Len(h) + 1
                  /\ SubSeq(h2, 1, Len(h)) = h
                  /\ h2[Len(h2)].role = "assistant"
                  /\ call'[c].final_response = CleanResponse(h2[Len(h2)].content)]_vars

\* C17: a call whose every generation call yielded tool calls leaves the
\* loop after max_iterations iterations with an outcome that is neither the
\* halted one nor a completed answer, and with content to return.
C17_ExhaustedLoopReturnsContent ==
    \A c \in Calls :
        (call[c].pc = "complete" /\ call[c].iteration = max_iterations) =>
            /\ call[c].llm_calls = max_iterations
            /\ call[c].final_response # HaltedMsg
            /\ call[c].final_response # NoResponse

\* The error texts a call answers with.
ErrorMessages ==
    {ErrorMsg(GenerationFailed), ErrorMsg(CallbackFailed), TimeoutText, ConnectText}

\* C18: a call in which the generation service failed returns (it does not
\* raise) and its answer is an error text; a call started afterwards on the
\* same agent starts with the halt flag clear and issues its generation call.
C18_GenerationFailureReturnsError ==
    [][\A c \in Calls :
          /\ (call[c].pc = "complete" /\ call[c].llm_failed /\ call'[c].pc = "idle") =>
                 /\ call'[c].returned = "value"
                 /\ call[c].final_response \in ErrorMessages
          /\ (call[c].pc = "idle" /\ call'[c].pc # "idle") =>
                 /\ ~halt_flag'[call'[c].agent]
                 /\ call'[c].pc = "llm" /\ call'[c].llm_calls = 1]_vars

\* What C18 says of the step that handles the failure: the answer becomes
\* an error text and the loop is left, with nothing raised at that point.
C18_FailureBecomesErrorText ==
    [][\A c \in Calls :
          (call[c].pc = "llm" /\ call'[c].llm_failed) =>
              /\ call'[c].pc \in {"complete", "callback"}
              /\ call'[c].final_response \in ErrorMessages]_vars

\* C19: a callback that fails changes neither the answer process_task
\* returns nor the history, and process_task still returns.
C19_SinkFailureChangesNothing ==
    [][\A c \in Calls :
          /\ (call[c].pc = "callback" /\ call'[c] # call[c]) =>
                 /\ call'[c].final_response = call[c].final_response
                 /\ conversation_history' = conversation_history
          /\ (call[c].pc = "complete" /\ call'[c].pc = "idle") =>
                 call'[c].returned = "value"]_vars

\* What C23 asks of the step on which an execute_tool call of call c ends.
DispatchedInOrder(c) ==
    LET a     == call[c].agent
        h     == conversation_history[a]
        h2    == conversation_history'[a]
        calls == call[c].tool_calls
    IN  /\ call'[c].actions = call[c].actions + 1
        /\ Len(h2) = Len(h) + 1
        /\ SubSeq(h2, 1, Len(h)) = h
        /\ h2[Len(h2)].role = "user" /\ h2[Len(h2)].content = ToolResultText
        /\ IF Len(calls) > 1
           THEN /\ call'[c].pc = "tool"
                /\ call'[c].tool_calls = Tail(calls)
                /\ call'[c].results = Append(call[c].results, h2[Len(h2)])
           ELSE call'[c].pc # "tool"

\* C23: the tool calls extracted from one response are handed to
\* execute_tool one after the other, first to last, each once, and after
\* each its result message is appended to the history, until none is left.
C23_EachDispatchedOnceInOrder ==
    [][\A c \in Calls :
          (call[c].pc = "tool" /\ call'[c] # call[c]) => DispatchedInOrder(c)]_vars

\* The same for the execute_tool calls that return.
C23_WhenExecuteReturns ==
    [][\A c \in Calls :
          ( /\ call[c].pc = "tool" /\ call'[c] # call[c]
            /\ Hashable(Head(call[c].tool_calls).tool) ) => DispatchedInOrder(c)]_vars

Active(c) == call[c].pc # "idle"

\* C25: at most one process_task call is in progress on an agent at any
\* time, and while a call is in progress nothing but that call appends to
\* its agent's history.
C25_OneCallPerSession ==
    /\ [](\A c, d \in Calls :
             (Active(c) /\ Active(d) /\ call[c].agent = call[d].agent) => c = d)
    /\ [][\A c \in Calls :
             ( /\ Active(c)
               /\ conversation_history'[call[c].agent] # conversation_history[call[c].agent] )
             => call'[c] # call[c]]_vars

\* The step changes something of agent a's session: its history, its halt
\* flag, or a process_task call on it.
Touched(a) ==
    \/ conversation_history'[a] # conversation_history[a]
    \/ halt_flag'[a] # halt_flag[a]
    \/ \E c \in Calls : (call[c].agent = a \/ call'[c].agent = a) /\ call'[c] # call[c]

\* C26: a step of process_task, halt or clear_history on one agent changes
\* no other agent's history, halt flag or call in progress.
C26_SessionsIsolated ==
    [][\A a, b \in Agents : (Touched(a) /\ Touched(b)) => a = b]_vars

\* Both agents are busy, one halted and the other not, and the history of
\* one was cleared while its call is in progress.
C26_Witness ==
    /\ call["c1"].pc = "tool" /\ call["c1"].agent = "main"
    /\ call["c2"].pc = "llm" /\ call["c2"].agent = "t1" /\ call["c2"].iteration = 1
    /\ halt_flag["main"] /\ ~halt_flag["t1"]
    /\ conversation_history["main"] # << >>
    /\ conversation_history["t1"] = << >>

\* The call is inside its loop: a generation call or a tool is in flight.
InLoop(c) == call[c].pc \in {"llm", "tool"}

\* C33: a halt requested while a call is in its loop stays pending until
\* that call reaches its next iteration boundary, whatever else runs on the
\* agent in between (another call that starts included), and at that
\* boundary the call ends with "Task halted by user.".
C33_HaltReachesRunningCall ==
    [][\A c \in Calls :
          /\ ( /\ InLoop(c) /\ halt_flag[call[c].agent]
               /\ call'[c].pc \in {"llm", "tool"} )
             => halt_flag'[call[c].agent]
          /\ (AtBoundary(c) /\ halt_flag[call[c].agent]) =>
                 /\ call'[c].pc = "complete"
                 /\ call'[c].final_response = HaltedMsg]_vars

\* The same when no call starts on an agent that has a call in its loop.
C33_WhenNoOverlappingStart ==
    [][\A c \in Calls :
          ( /\ InLoop(c) /\ halt_flag[call[c].agent]
            /\ call'[c].pc \in {"llm", "tool"}
            /\ \A d \in Calls : ~(call[d].pc = "idle" /\ call'[d].pc # "idle") )
          => halt_flag'[call[c].agent]]_vars

\* One task at a time on agent "main", submitted again and again.
AgentNext ==
    \/ /\ Len(conversation_history["main"]) <= MaxBacklog
       /\ Start("c1", "main")
    \/ \E resp \in PlainResponses : LLMReturn("c1", resp)
    \/ \E outcome \in HandlerOutcomes : ToolReturn("c1", outcome)
    \/ \E ok \in BOOLEAN : CallbackReturn("c1", ok)
    \/ \E ok \in BOOLEAN : Return("c1", ok)
    \/ Halt("main")

\* Tasks submitted to agent "main" while it may be busy with another.
BusyNext ==
    \/ \E c \in Calls :
          /\ Len(conversation_history["main"]) <= MaxBusyBacklog
          /\ Start(c, "main")
    \/ \E c \in Calls, resp \in PlainResponses : LLMReturn(c, resp)
    \/ \E c \in Calls, outcome \in HandlerOutcomes : ToolReturn(c, outcome)
    \/ \E c \in Calls, ok \in BOOLEAN : CallbackReturn(c, ok)
    \/ \E c \in Calls, ok \in BOOLEAN : Return(c, ok)
    \/ Halt("main")

\* One task at a time on agent "main", with every kind of response.
ReplyNext ==
    \/ /\ Len(conversation_history["main"]) <= MaxReplyBacklog
       /\ Start("c1", "main")
    \/ \E resp \in Responses : LLMReturn("c1", resp)
    \/ \E outcome \in HandlerOutcomes : ToolReturn("c1", outcome)
    \/ \E ok \in BOOLEAN : CallbackReturn("c1", ok)
    \/ \E ok \in BOOLEAN : Return("c1", ok)
    \/ Halt("main")

\* The agent a call is submitted to when every agent has its own caller.
AgentOf(c) == IF c = "c1" THEN "main" ELSE "t1"

\* The responses of the runs with two agents: a failure, an answer, a
\* tool call.
SessionResponses ==
    {Response("fails", << >>, "ok"), Response("text", <<Prose>>, "ok"),
     Response("text", ToolText(1), "ok")}

\* Two agents, each with its own tasks, halted and cleared from outside.
SessionNext ==
    \/ \E c \in Calls :
          /\ Len(conversation_history[AgentOf(c)]) <= MaxSessionBacklog
          /\ Start(c, AgentOf(c))
    \/ \E c \in Calls, resp \in SessionResponses : LLMReturn(c, resp)
    \/ \E c \in Calls, outcome \in HandlerOutcomes : ToolReturn(c, outcome)
    \/ \E c \in Calls, ok \in BOOLEAN : CallbackReturn(c, ok)
    \/ \E c \in Calls, ok \in BOOLEAN : Return(c, ok)
    \/ \E a \in Agents : Halt(a)
    \/ \E a \in Agents : ClearHistory(a)

(***************************************************************************)
(* main.py agent_command: the handler of one socket event.  python-socketio *)
(* runs the handler of each event as a task of its own.  A command is the   *)
(* sequence of the words of data['command'] after strip().                  *)
(***************************************************************************)

\* A stretch of 160 characters of text that holds none of the keywords.
Essay == "essay"

\* The marker of an internal research task.
ResearchTask == "RESEARCH TASK:"

Commands ==
    { << >>,
      <<"open", "example.com">>,
      <<"research", "llamas">>,
      <<ResearchTask, "llamas">>,
      <<"hello">>,
      <<"stop">>, <<"halt">>, <<"cancel">>, <<"abort">>, <<"STOP">>,
      <<"start", "mcp">>,
      <<"start", "mcp", Essay>>,
      <<Essay>>,
      <<Essay, "stop">> }

\* str.lower() of a word
Lower(w) ==
    CASE w = "STOP"       -> "stop"
      [] w = ResearchTask -> "research task:"
      [] OTHER            -> w

\* len() of a word
WordLen(w) ==
    CASE w = Essay -> 160
      [] w = ResearchTask -> 14
      [] w = "example.com" -> 11
      [] w = "research" -> 8
      [] w \in {"llamas", "cancel"} -> 6
      [] w \in {"hello", "abort", "start"} -> 5
      [] w \in {"open", "stop", "halt", "STOP"} -> 4
      [] w = "mcp" -> 3

\* len(command): the words and one space between two of them
RECURSIVE CommandLen(_)
CommandLen(command) ==
    IF command = << >> THEN 0
    ELSE IF Len(command) = 1 THEN WordLen(command[1])
    ELSE WordLen(Head(command)) + 1 + CommandLen(Tail(command))

\* extract_url(command) is not None: the lowered text begins with open,
\* browse, go to or show me, and something follows.
extract_url(command) ==
    \/ Len(command) >= 2 /\ Lower(command[1]) \in {"open", "browse"}
    \/ /\ Len(command) >= 3
       /\ <<Lower(command[1]), Lower(command[2])>> \in {<<"go", "to">>, <<"show", "me">>}

\* Line 411: a research keyword in the lowered command, or the marker
is_research(command) ==
    \E i \in 1..Len(command) :
        \/ Lower(command[i]) \in {"research", "investigate", "research task:"}
        \/ command[i] = ResearchTask

\* Line 437: commands shorter than this go to the simple chatbot mode
ChatbotLimit == 150

\* Line 479
HaltWords == {"stop", "halt", "cancel", "abort"}

\* Line 487: "start mcp" or "enable mcp" in the lowered command
is_mcp(command) ==
    \E i \in 1..(Len(command) - 1) :
        Lower(command[i]) \in {"start", "enable"} /\ Lower(command[i + 1]) = "mcp"

\* Lines 393-508: the branch of agent_command that handles the command,
\* the conditions tested in the order of the code.
RouteOf(command) ==
    IF command = << >> THEN "empty"
    ELSE IF Head(command) # ResearchTask /\ extract_url(command) THEN "navigate"
    ELSE IF is_research(command) THEN "research"
    ELSE IF CommandLen(command) < ChatbotLimit THEN "chat"
    ELSE IF Len(command) = 1 /\ Lower(command[1]) \in HaltWords THEN "halt"
    ELSE IF is_mcp(command) THEN "mcp"
    ELSE "agent"

\* Histories longer than this take no further command.
MaxCommandBacklog == 0

\* states: the values of agent:state the handling of the event has emitted
\* to its client, in order.
IdleEvent == [pc |-> "idle", command |-> << >>, thread_id |-> "main", states |-> << >>]

\* The handler has returned and the tasks it started have ended: its
\* locals are gone, what it emitted stays emitted.
Done(states) == [IdleEvent EXCEPT !.pc = "done", !.states = states]

\* lifespan, lines 126 and 143: the agent of thread 'main' exists from startup.
CommandInit ==
    /\ event = [e \in Calls |-> IdleEvent]
    /\ thread_agents = {"main"}

\* Line 391: the event arrives and the handler emits state 'acting'.
Receive(e, command, thread_id) ==
    /\ event[e].pc \in {"idle", "done"}
    /\ Len(conversation_history[thread_id]) <= MaxCommandBacklog
    /\ event' = [event EXCEPT ![e] = [pc |-> "acting", command |-> command,
                                      thread_id |-> thread_id, states |-> <<"acting">>]]
    /\ UNCHANGED <<thread_agents, schedVars, agentVars, toolVars>>

\* Lines 393-513, from the return of the first emit to the next await that
\* waits for something other than an emit: the handler returns (empty
\* command, navigation, halt, MCP), starts perform_research as a task of
\* its own, awaits the chat model, or finds or creates the agent of the
\* thread and goes on to process_task.
RouteCommand(e) ==
    /\ event[e].pc = "acting"
    /\ LET route == RouteOf(event[e].command)
           t     == event[e].thread_id
       IN
       /\ event' = [event EXCEPT ![e] =
                       CASE route \in {"empty", "navigate", "halt", "mcp"} -> Done(@.states)
                         [] route = "research" -> [@ EXCEPT !.pc = "research"]
                         [] route = "chat"     -> [@ EXCEPT !.pc = "chat"]
                         [] route = "agent"    -> [@ EXCEPT !.pc = "processing"]]
       /\ halt_flag' = IF route = "halt" /\ t \in thread_agents
                       THEN [halt_flag EXCEPT ![t] = TRUE]
                       ELSE halt_flag
       /\ thread_agents' = IF route = "agent" THEN thread_agents \cup {t}
                           ELSE thread_agents
    /\ UNCHANGED <<max_iterations, conversation_history, call, schedVars, toolVars>>

\* Lines 442-476: the chat model has answered or failed; both paths emit
\* state 'idle' and return.
ChatReturn(e) ==
    /\ event[e].pc = "chat"
    /\ event' = [event EXCEPT ![e] = Done(Append(event[e].states, "idle"))]
    /\ UNCHANGED <<thread_agents, schedVars, agentVars, toolVars>>

\* perform_research has ended; its finally clause (lines 381-382) emits
\* state 'idle'.
ResearchReturn(e) ==
    /\ event[e].pc = "research"
    /\ event' = [event EXCEPT ![e] = Done(Append(event[e].states, "idle"))]
    /\ UNCHANGED <<thread_agents, schedVars, agentVars, toolVars>>

\* Line 536: process_task of the thread's agent is entered.
ProcessTask(e) ==
    /\ event[e].pc = "processing"
    /\ call[e].returned = "none"
    /\ Start(e, event[e].thread_id)

\* Lines 536-596: process_task has returned or raised; the result is sent,
\* or the error is, and the finally clause emits state 'idle'.
AgentReturn(e) ==
    /\ event[e].pc = "processing"
    /\ call[e].pc = "idle" /\ call[e].returned # "none"
    /\ event' = [event EXCEPT ![e] = Done(Append(event[e].states, "idle"))]
    /\ call' = [call EXCEPT ![e] = IdleCall]
    /\ UNCHANGED <<thread_agents, max_iterations, conversation_history, halt_flag,
                   schedVars, toolVars>>

\* What the handler of event e and the tasks it started do next.
Progress(e) ==
    \/ RouteCommand(e)
    \/ ChatReturn(e)
    \/ ResearchReturn(e)
    \/ ProcessTask(e)
    \/ \E resp \in SessionResponses : LLMReturn(e, resp)
    \/ \E outcome \in HandlerOutcomes : ToolReturn(e, outcome)
    \/ \E ok \in BOOLEAN : CallbackReturn(e, ok)
    \/ \E ok \in BOOLEAN : Return(e, ok)
    \/ AgentReturn(e)

CommandNext ==
    \/ \E e \in Calls, command \in Commands, thread_id \in Agents :
          Receive(e, command, thread_id)
    \/ \E e \in Calls : RouteCommand(e)
    \/ \E e \in Calls : ChatReturn(e)
    \/ \E e \in Calls : ResearchReturn(e)
    \/ \E e \in Calls : ProcessTask(e)
    \/ \E e \in Calls, resp \in SessionResponses : LLMReturn(e, resp)
    \/ \E e \in Calls, outcome \in HandlerOutcomes : ToolReturn(e, outcome)
    \/ \E e \in Calls, ok \in BOOLEAN : CallbackReturn(e, ok)
    \/ \E e \in Calls, ok \in BOOLEAN : Return(e, ok)
    \/ \E e \in Calls : AgentReturn(e)

\* C34: a command that is one of the halt words, for a thread that has an
\* agent, reaches the halt check: when its handler goes on from the first
\* emit, the halt flag of the thread's agent is set.
C34_HaltWordSetsFlag ==
    [][\A e \in Calls :
          ( /\ event[e].pc = "acting" /\ event'[e].pc # "acting"
            /\ Len(event[e].command) = 1
            /\ Lower(event[e].command[1]) \in HaltWords
            /\ event[e].thread_id \in thread_agents )
          => halt_flag'[event[e].thread_id]]_vars

\* The handling of event e has emitted state 'acting' and not yet 'idle'.
Acting(e) == event[e].states = <<"acting">>

Idled(e) == \E i \in 1..Len(event[e].states) : event[e].states[i] = "idle"

\* C36: every event whose handling has emitted state 'acting' is followed
\* by an emission of state 'idle' to the same client, whichever branch
\* handles the command.
C36_ActingLeadsToIdle ==
    \A e \in Calls : Acting(e) ~> Idled(e)

\* The same for the commands the chat, research and agent branches handle.
C36_WhenBranchEmitsIdle ==
    \A e \in Calls :
        (Acting(e) /\ RouteOf(event[e].command) \in {"chat", "research", "agent"})
            ~> Idled(e)

SchedQuiet ==
    /\ max_vram_gb = 24
    /\ default_models = DEFAULT_MODELS
    /\ models = NoModels
    /\ current_vram_usage = 0
    /\ lock = NoOwner
    /\ req = [k \in Clients |-> IdleReq]
    /\ ctl = [k \in Clients |-> IdleCtl]

AgentSpecInit == AgentInit /\ SchedQuiet /\ ToolInit /\ CommandInit

AgentSpec == AgentSpecInit /\ [][AgentNext]_vars

BusySpec == AgentSpecInit /\ [][BusyNext]_vars

SessionSpec == AgentSpecInit /\ [][SessionNext]_vars

ReplySpec == AgentSpecInit /\ [][ReplyNext]_vars

\* The server after startup, its agents with max_iterations 1.
CommandSpecInit == AgentQuiet /\ SchedQuiet /\ ToolInit /\ CommandInit

CommandSpec == CommandSpecInit /\ [][CommandNext]_vars

\* The handler of every event and the tasks it started keep running.
CommandLiveSpec ==
    /\ CommandSpecInit /\ [][CommandNext]_vars
    /\ \A e \in Calls : WF_vars(Progress(e))

Init == SchedInit /\ AgentInit /\ ToolInit /\ CommandInit

Next == SchedNext \/ AgentNext \/ ToolNext

Spec == Init /\ [][Next]_vars

SchedSpecInit == SchedInit /\ AgentQuiet /\ ToolInit /\ CommandInit

SchedSpec == SchedSpecInit /\ [][SchedNext]_vars

RouteSpec == SchedSpecInit /\ [][RouteNext]_vars

ToolSpecInit == SchedQuiet /\ AgentQuiet /\ ToolInit /\ CommandInit

ToolSpec == ToolSpecInit /\ [][ToolNext]_vars

ExtractSpecInit == SchedQuiet /\ AgentQuiet /\ ExtractInit /\ CommandInit

ExtractSpec == ExtractSpecInit /\ [][ExtractNext]_vars

====
